---- MODULE Spec2Model ----
(***************************************************************************)
(* Model of the podcast transcription / diarization command (main.go).     *)
(*                                                                         *)
(* The persistent state is the two files of the working directory,        *)
(* transcription.txt and diarized.txt.  One run of the program is a walk   *)
(* of pc through the segments of main(); a new run may start once the      *)
(* previous one has exited.  A file content and every text is a sequence   *)
(* of fragments (characters, and the header literal as one fragment).      *)
(***************************************************************************)
EXTENDS Integers, Sequences, FiniteSets, TLC

VARIABLES
    cache,              \* content of transcription.txt, or NoFile
    diarized,           \* content of diarized.txt, or NoFile
    pc,                 \* position of the current run in main()
    flagParse,          \* what flag.Parse made of the command line of the run
    audioPath,          \* *audioPath   (main.go:47)
    numSpeakers,        \* *numSpeakers (main.go:48)
    apiKey,             \* apiKey       (main.go:57)
    transcript,         \* transcript   (main.go:63)
    diarizedTranscript, \* diarizedTranscript (main.go:96)
    exit,               \* exit status of the run, NoExit while it runs
    call,               \* the last client call of the run: request, exchange, return
    log,                \* history: the file and network operations of the run, in order
    cache0,             \* history: transcription.txt when the run started
    diarized0,          \* history: diarized.txt when the run started
    noTextCached        \* history: transcription.txt was written from a reply without "text"

vars == <<cache, diarized, pc, flagParse, audioPath, numSpeakers, apiKey, transcript,
          diarizedTranscript, exit, call, log, cache0, diarized0, noTextCached>>

(* ------------------------------ bounds -------------------------------- *)

\* longest text (transcript, diarized transcript) the services return
MaxLen == 2

(* ----------------------------- constants ------------------------------ *)

\* config.TranscriptionTimeout, config.DiarizationTimeout, config.HTTPTimeout, in seconds
TranscriptionTimeout == 5 * 60
DiarizationTimeout == 2 * 60
HTTPTimeout == 30
\* config.MaxResponseBodySize, config.MaxAudioFileSize, in bytes
MaxResponseBodySize == 10 * 1024 * 1024
MaxAudioFileSize == 25 * 1024 * 1024
\* http.StatusOK
StatusOK == 200

\* a file of the working directory: absent, or present with its content
NoFile == [exists |-> FALSE, data |-> <<>>]
File(d) == [exists |-> TRUE, data |-> d]

\* exit status of a run that has not exited
NoExit == -1

\* error values: fmt.Errorf of the two clients, by kind; a status error carries
\* the status code and the number of body bytes in its message
Err(kind) == [kind |-> kind, status |-> 0, body |-> 0]
NoErr == Err("nil")

NL == "\n"
HeaderLine == "=== Diarized Transcript ==="
Chars == {"a", NL}

RECURSIVE SeqsUpTo(_, _)
SeqsUpTo(S, n) ==
    IF n = 0 THEN {<<>>}
    ELSE LET shorter == SeqsUpTo(S, n - 1)
         IN  shorter \cup {Append(s, c) : s \in shorter, c \in S}

\* the texts a service can return in a JSON string field
Texts == SeqsUpTo(Chars, MaxLen)

Min(a, b) == IF a < b THEN a ELSE b

Prefixes(s) == {SubSeq(s, 1, n) : n \in 0..Len(s)}

(* --------------------------- the environment -------------------------- *)

\* command lines: what flag.Parse makes of os.Args
\*   parse = "ok"   the flags are well formed (audio and speakers as given or defaulted)
\*   parse = "bad"  an undefined flag or a non-integer -speakers value
\*   parse = "help" -h or -help
CmdLine(p, a, n) == [parse |-> p, audio |-> a, speakers |-> n]
CmdLines ==
    { CmdLine("ok", "", 2), CmdLine("ok", "ep.mp3", 2), CmdLine("ok", "ep.mp3", 0),
      CmdLine("bad", "ep.mp3", 2), CmdLine("help", "", 2) }

\* values of OPENAI_API_KEY (unset reads as "")
ApiKeys == {"", "sk-test"}

\* the audio file at audioPath
AudioSizes == {0, MaxAudioFileSize, MaxAudioFileSize + 1, 30 * 1024 * 1024}
AudioFiles ==
    {[exists |-> FALSE, size |-> 0, readable |-> TRUE]} \cup
    {[exists |-> TRUE, size |-> s, readable |-> r] : s \in AudioSizes, r \in BOOLEAN}

\* seconds spent between the creation of the call's context and httpClient.Do
PrepTimes == {0, 280}

\* one request/response exchange as the network makes it:
\*   refused   the transport fails at once
\*   stall     no byte ever arrives
\*   complete  the exchange makes steady progress and is over after dur seconds
NoExch == [kind |-> "none", dur |-> 0]
Exchanges ==
    {[kind |-> "refused", dur |-> 0], [kind |-> "stall", dur |-> 0]} \cup
    {[kind |-> "complete", dur |-> d] : d \in {1, 31, 121, 301}}

\* HTTP responses: status, body length in bytes, and what the body decodes to
NoResp == [status |-> 0, len |-> 0, json |-> [kind |-> "none", text |-> <<>>, more |-> FALSE]]
Statuses == {StatusOK, 201, 204, 429, 500}
BodyLens == {0, MaxResponseBodySize, MaxResponseBodySize + 1}
Json(k, t, m) == [kind |-> k, text |-> t, more |-> m]
BadJson == Json("bad", <<>>, FALSE)

\* bodies of the transcription service: {"text": t}, an object without "text",
\* or something that does not decode into the result struct
TranscriptionBodies ==
    {Json("text", t, FALSE) : t \in Texts} \cup {Json("notext", <<>>, FALSE), BadJson}

\* bodies of the completion service: {"choices": [{"message": {"content": t}}, ...]}
\* (more: further choices follow the first), {"choices": []}, or undecodable
DiarizationBodies ==
    {Json("choices", t, m) : t \in Texts, m \in BOOLEAN} \cup
    {Json("nochoices", <<>>, FALSE), BadJson}

Responses(bodies) ==
    {[status |-> s, len |-> 1, json |-> j] : s \in {StatusOK, 201}, j \in bodies} \cup
    {[status |-> s, len |-> l, json |-> BadJson] : s \in Statuses \ {StatusOK}, l \in BodyLens}

(* ----------------------------- the clients ---------------------------- *)

\* httpClient.Do(req) with req bound to a context of `deadline` seconds created
\* `prep` seconds earlier.  http.Client.Timeout limits the whole exchange
\* (connection, request, response headers and body), the context limits it to
\* what is left of the deadline; whichever is shorter ends the call.
TimeLimit(deadline, prep) == Min(HTTPTimeout, deadline - prep)

DoOutcome(deadline, prep, exch) ==
    CASE exch.kind = "refused" -> IF deadline - prep <= 0 THEN "timeout" ELSE "network"
      [] exch.kind = "stall" -> "timeout"
      [] OTHER -> IF exch.dur > TimeLimit(deadline, prep) THEN "timeout" ELSE "response"

\* resp.StatusCode != http.StatusOK
StatusFails(status) == status # StatusOK

\* variant of LimitedBody: the body is read without a limit
UnlimitedBody(len) == len

\* io.ReadAll(io.LimitReader(resp.Body, config.MaxResponseBodySize)): bytes kept
LimitedBody(len) == Min(len, MaxResponseBodySize)

StatusErr(resp) == [kind |-> "status", status |-> resp.status, body |-> LimitedBody(resp.len)]

\* variant of DecodeText: a reply without "text" is a decode error
DecodeTextStrict(json) ==
    IF json.kind = "text"
    THEN [text |-> json.text, err |-> NoErr]
    ELSE [text |-> <<>>, err |-> Err("decode")]

\* json.NewDecoder(resp.Body).Decode(&res) into struct{ Text string `json:"text"` }
\* and the return of res.Text: a missing field leaves the zero value ""
DecodeText(json) ==
    CASE json.kind = "text" -> [text |-> json.text, err |-> NoErr]
      [] json.kind = "notext" -> [text |-> <<>>, err |-> NoErr]
      [] OTHER -> [text |-> <<>>, err |-> Err("decode")]

\* Decode into struct{ Choices []{Message{Content}} }, then the len(res.Choices) == 0
\* test and the return of res.Choices[0].Message.Content
DecodeChoices(json) ==
    CASE json.kind = "choices" -> [text |-> json.text, err |-> NoErr]
      [] json.kind = "nochoices" -> [text |-> <<>>, err |-> Err("empty")]
      [] OTHER -> [text |-> <<>>, err |-> Err("decode")]

\* variant of TooLarge: >= for >
TooLargeInclusive(size) == size >= MaxAudioFileSize

\* fileInfo.Size() > config.MaxAudioFileSize
TooLarge(size) == size > MaxAudioFileSize

\* a finished client call: what was asked, what the network did, what came back.
\* ops are the file and network operations performed, in order, each with its success.
Op(name, ok) == [op |-> name, ok |-> ok]
NoAudio == [exists |-> FALSE, size |-> 0, readable |-> FALSE]
Call(fn, audio, arg, n, ops, prep, exch, resp, text, err) ==
    [fn |-> fn, audio |-> audio, transcript |-> arg, speakers |-> n, ops |-> ops,
     prep |-> prep, exch |-> exch, resp |-> resp, text |-> text, err |-> err]
NoCall == Call("none", NoAudio, <<>>, 0, <<>>, 0, NoExch, NoResp, <<>>, NoErr)

\* the part of both clients from httpClient.Do to the return
Exchange(fn, audio, arg, n, before, post, deadline, prep, exch, resp, decoded) ==
    LET out == DoOutcome(deadline, prep, exch)
        done(ok, r, text, err) ==
            Call(fn, audio, arg, n, Append(before, Op(post, ok)), prep, exch, r, text, err)
    IN  CASE out # "response" -> done(FALSE, NoResp, <<>>, Err(out))
          [] StatusFails(resp.status) -> done(FALSE, resp, <<>>, StatusErr(resp))
          [] OTHER -> done(decoded.err = NoErr, resp, decoded.text, decoded.err)

\* transcribeAudio(ctx, apiKey, audioPath)
transcribeAudio(file, prep, exch, resp) ==
    LET fail(ops, kind) ==
            Call("transcribeAudio", file, <<>>, 0, ops, 0, NoExch, NoResp, <<>>, Err(kind))
    IN  CASE ~file.exists -> fail(<<Op("stat_audio", FALSE)>>, "io")
          [] TooLarge(file.size) -> fail(<<Op("stat_audio", FALSE)>>, "size")
          [] ~file.readable ->
                fail(<<Op("stat_audio", TRUE), Op("read_audio", FALSE)>>, "io")
          [] OTHER ->
                Exchange("transcribeAudio", file, <<>>, 0,
                         <<Op("stat_audio", TRUE), Op("read_audio", TRUE)>>,
                         "post_transcription", TranscriptionTimeout, prep, exch, resp,
                         DecodeText(resp.json))

\* diarizeTranscript(ctx, apiKey, transcript, numSpeakers)
diarizeTranscript(text, n, exch, resp) ==
    Exchange("diarizeTranscript", NoAudio, text, n, <<>>, "post_diarization",
             DiarizationTimeout, 0, exch, resp, DecodeChoices(resp.json))

(* ------------------------------- main() ------------------------------- *)

\* os.WriteFile(name, data, 0644) on a file whose state is old: it succeeds and
\* the file holds data; or the open fails and the file is as before; or the file
\* was opened (created, truncated) and an error came later, leaving part of data
WriteFile(old, data) ==
    {[file |-> File(data), ok |-> TRUE], [file |-> old, ok |-> FALSE]} \cup
    {[file |-> File(p), ok |-> FALSE] : p \in Prefixes(data)}

\* variant of CacheExists: the cache is never found
CacheNeverFound(f) == FALSE

\* _, err := os.Stat(config.TranscriptionFile); err == nil
\* (Stat is taken to succeed exactly when the file is there)
CacheExists(f) == f.exists

\* variant of CachedTranscript: a final newline of the file is dropped
CachedTranscriptTrimmed(f) ==
    IF f.data # <<>> /\ f.data[Len(f.data)] = NL
    THEN SubSeq(f.data, 1, Len(f.data) - 1)
    ELSE f.data

\* data, err := os.ReadFile(config.TranscriptionFile); transcript = string(data)
CachedTranscript(f) == f.data

\* *audioPath == ""
AudioMissing(path) == path = ""

\* variant of KeyMissing: the credential is not checked
KeyNeverMissing(key) == FALSE

\* apiKey == ""
KeyMissing(key) == key = ""

\* variant of FlagExit: every flag.Parse exit, -h included, has status 2
FlagExitAlwaysTwo(parse) == 2

\* the status flag.Parse exits with (flag.ExitOnError): 0 after -h or -help,
\* 2 after a command line it rejects
FlagExit(parse) == IF parse = "help" THEN 0 ELSE 2

\* variant of DiarizedData: the final newline is left out
DiarizedDataNoNewline(text) == <<HeaderLine, NL>> \o text

\* []byte("=== Diarized Transcript ===\n" + diarizedTranscript + "\n")
DiarizedData(text) == <<HeaderLine, NL>> \o text \o <<NL>>

\* variant of Failed: an empty result is not treated as a failure
FailedUnlessEmpty(err) == err # NoErr /\ err.kind # "empty"

\* err != nil
Failed(err) == err # NoErr

\* os.Exit(code)
Exit(code) == pc' = "exited" /\ exit' = code

Init ==
    /\ cache = NoFile
    /\ diarized = NoFile
    /\ pc = "idle"
    /\ flagParse = "none"
    /\ audioPath = ""
    /\ numSpeakers = 2
    /\ apiKey = ""
    /\ transcript = <<>>
    /\ diarizedTranscript = <<>>
    /\ exit = NoExit
    /\ call = NoCall
    /\ log = <<>>
    /\ cache0 = NoFile
    /\ diarized0 = NoFile
    /\ noTextCached = FALSE

\* a process starts: its variables hold their zero values and nothing is recorded
FreshRun ==
    /\ flagParse' = "none"
    /\ audioPath' = ""
    /\ numSpeakers' = 2
    /\ apiKey' = ""
    /\ transcript' = <<>>
    /\ diarizedTranscript' = <<>>
    /\ exit' = NoExit
    /\ call' = NoCall
    /\ log' = <<>>

\* the user starts the program in the working directory
StartRun ==
    /\ pc \in {"idle", "exited"}
    /\ pc' = "parse"
    /\ FreshRun
    /\ cache0' = cache
    /\ diarized0' = diarized
    /\ UNCHANGED <<cache, diarized, noTextCached>>

\* between two runs the user deletes transcription.txt to force a new transcription
UserDelete ==
    /\ pc \in {"idle", "exited"}
    /\ cache.exists
    /\ cache' = NoFile
    /\ noTextCached' = FALSE
    /\ pc' = "idle"
    /\ FreshRun
    /\ cache0' = NoFile
    /\ diarized0' = NoFile
    /\ UNCHANGED diarized

\* flag.String, flag.Int, flag.Parse and the test of *audioPath
ParseArgs ==
    /\ pc = "parse"
    /\ \E cl \in CmdLines :
          /\ flagParse' = cl.parse
          /\ IF cl.parse # "ok"
             THEN Exit(FlagExit(cl.parse)) /\ UNCHANGED <<audioPath, numSpeakers>>
             ELSE
               /\ audioPath' = cl.audio
               /\ numSpeakers' = cl.speakers
               /\ IF AudioMissing(cl.audio)
                  THEN Exit(1)
                  ELSE pc' = "key" /\ UNCHANGED exit
    /\ UNCHANGED <<cache, diarized, apiKey, transcript, diarizedTranscript, call,
                   log, cache0, diarized0, noTextCached>>

\* os.Getenv("OPENAI_API_KEY") and the test of apiKey
CheckKey ==
    /\ pc = "key"
    /\ \E key \in ApiKeys :
          /\ apiKey' = key
          /\ IF KeyMissing(key)
             THEN Exit(1)
             ELSE pc' = "cache" /\ UNCHANGED exit
    /\ UNCHANGED <<cache, diarized, flagParse, audioPath, numSpeakers, transcript,
                   diarizedTranscript, call, log, cache0, diarized0, noTextCached>>

\* os.Stat(config.TranscriptionFile) and, if it is there, os.ReadFile
CheckCache ==
    /\ pc = "cache"
    /\ IF CacheExists(cache)
       THEN \E readOk \in BOOLEAN :
              /\ log' = log \o <<Op("stat_cache", TRUE), Op("read_cache", readOk)>>
              /\ IF readOk
                 THEN transcript' = CachedTranscript(cache) /\ pc' = "diarize" /\ UNCHANGED exit
                 ELSE Exit(1) /\ UNCHANGED transcript
       ELSE /\ log' = Append(log, Op("stat_cache", TRUE))
            /\ pc' = "transcribe"
            /\ UNCHANGED <<transcript, exit>>
    /\ UNCHANGED <<cache, diarized, flagParse, audioPath, numSpeakers, apiKey,
                   diarizedTranscript, call, cache0, diarized0, noTextCached>>

\* transcript, err = transcribeAudio(ctx, apiKey, *audioPath) under a context of
\* config.TranscriptionTimeout
Transcribe ==
    /\ pc = "transcribe"
    /\ \E file \in AudioFiles, prep \in PrepTimes, exch \in Exchanges,
          resp \in Responses(TranscriptionBodies) :
          LET c == transcribeAudio(file, prep, exch, resp)
          IN  /\ call' = c
              /\ log' = log \o c.ops
              /\ transcript' = c.text
              /\ IF Failed(c.err)
                 THEN Exit(1)
                 ELSE pc' = "write_cache" /\ UNCHANGED exit
    /\ UNCHANGED <<cache, diarized, flagParse, audioPath, numSpeakers, apiKey,
                   diarizedTranscript, cache0, diarized0, noTextCached>>

\* os.WriteFile(config.TranscriptionFile, []byte(transcript), 0644)
WriteCache ==
    /\ pc = "write_cache"
    /\ \E w \in WriteFile(cache, transcript) :
          /\ cache' = w.file
          /\ log' = Append(log, Op("write_cache", w.ok))
          /\ noTextCached' = (w.ok /\ call.resp.json.kind = "notext")
          /\ IF w.ok
             THEN pc' = "diarize" /\ UNCHANGED exit
             ELSE Exit(1)
    /\ UNCHANGED <<diarized, flagParse, audioPath, numSpeakers, apiKey, transcript,
                   diarizedTranscript, call, cache0, diarized0>>

\* diarizedTranscript, err := diarizeTranscript(ctx, apiKey, transcript, *numSpeakers)
\* under a context of config.DiarizationTimeout
Diarize ==
    /\ pc = "diarize"
    /\ \E exch \in Exchanges, resp \in Responses(DiarizationBodies) :
          LET c == diarizeTranscript(transcript, numSpeakers, exch, resp)
          IN  /\ call' = c
              /\ log' = log \o c.ops
              /\ diarizedTranscript' = c.text
              /\ IF Failed(c.err)
                 THEN Exit(1)
                 ELSE pc' = "write_diarized" /\ UNCHANGED exit
    /\ UNCHANGED <<cache, diarized, flagParse, audioPath, numSpeakers, apiKey,
                   transcript, cache0, diarized0, noTextCached>>

\* os.WriteFile(config.DiarizedFile, header + diarizedTranscript + "\n", 0644),
\* then the return from main
WriteDiarized ==
    /\ pc = "write_diarized"
    /\ \E w \in WriteFile(diarized, DiarizedData(diarizedTranscript)) :
          /\ diarized' = w.file
          /\ log' = Append(log, Op("write_diarized", w.ok))
          /\ Exit(IF w.ok THEN 0 ELSE 1)
    /\ UNCHANGED <<cache, flagParse, audioPath, numSpeakers, apiKey, transcript,
                   diarizedTranscript, call, cache0, diarized0, noTextCached>>

Next ==
    \/ StartRun
    \/ UserDelete
    \/ ParseArgs
    \/ CheckKey
    \/ CheckCache
    \/ Transcribe
    \/ WriteCache
    \/ Diarize
    \/ WriteDiarized

Spec == Init /\ [][Next]_vars

(* ------------------------------ properties ---------------------------- *)

OpsOf(l) == {l[i].op : i \in DOMAIN l}
Performed(name) == name \in OpsOf(log)
Succeeded(name) == \E i \in DOMAIN log : log[i] = Op(name, TRUE)

\* the run did everything: every operation succeeded, the last one being the
\* write of diarized.txt
FullSuccess ==
    /\ Succeeded("write_diarized")
    /\ \A i \in DOMAIN log : log[i].ok
    /\ call.fn = "diarizeTranscript" /\ call.err = NoErr

\* C1: in a run that starts with transcription.txt present, transcribeAudio is not
\* called and no transcription request is sent, and the transcript handed to
\* diarizeTranscript is the content transcription.txt had when the run started.
C1_CacheHitSkipsTranscription ==
    cache0.exists =>
        /\ ~Performed("post_transcription")
        /\ ~Performed("stat_audio")
        /\ call.fn # "transcribeAudio"
        /\ (call.fn = "diarizeTranscript" => call.transcript = cache0.data)
        /\ (pc \in {"diarize", "write_diarized"} => transcript = cache0.data)

C1_Witness ==
    /\ cache0.exists /\ cache0.data # <<>>
    /\ call.fn = "diarizeTranscript" /\ call.transcript = cache0.data
    /\ pc = "exited" /\ exit = 0

\* C2: an audio file larger than MaxAudioFileSize makes transcribeAudio fail with
\* the size error without sending a request; the run exits non-zero without any
\* request and without writing either file.  A file of exactly MaxAudioFileSize
\* bytes does not fail with the size error.
C2_OversizeRejectedBeforeNetwork ==
    (call.fn = "transcribeAudio" /\ call.audio.exists) =>
        /\ call.audio.size > MaxAudioFileSize =>
              /\ call.err.kind = "size"
              /\ call.resp = NoResp /\ call.exch = NoExch
              /\ pc = "exited" /\ exit # 0 /\ exit # NoExit
              /\ OpsOf(log) \cap {"post_transcription", "post_diarization",
                                   "write_cache", "write_diarized"} = {}
              /\ cache = cache0 /\ ~cache.exists
              /\ diarized = diarized0
        /\ call.audio.size = MaxAudioFileSize => call.err.kind # "size"

C2_Witness ==
    /\ call.fn = "transcribeAudio"
    /\ call.audio.size = 30 * 1024 * 1024
    /\ call.err.kind = "size"
    /\ diarized.exists

\* C3: when diarizeTranscript fails, for whatever reason, the run exits non-zero,
\* diarized.txt is as it was when the run started, and a transcription.txt written
\* earlier in the run is still there with the transcript written.
C3_DiarizationFailureKeepsFiles ==
    (call.fn = "diarizeTranscript" /\ call.err # NoErr) =>
        /\ call.err.kind \in {"timeout", "network", "status", "decode", "empty"}
        /\ pc = "exited" /\ exit = 1
        /\ diarized = diarized0
        /\ ~Performed("write_diarized")
        /\ (Performed("write_cache") => cache = File(transcript))
        /\ (cache0.exists => cache = cache0)

C3_Witness ==
    /\ call.fn = "diarizeTranscript"
    /\ call.err.kind = "status" /\ call.err.status = 429
    /\ Succeeded("write_cache") /\ cache.data # <<>>
    /\ diarized0.exists

\* C4: transcription.txt comes into being only by the write that follows a
\* successful transcribeAudio, and while it exists nothing but the user's deletion
\* changes it: no run writes to it again.
C4_CacheWrittenOnce ==
    [][ /\ (cache.exists => (cache' = cache \/ UserDelete))
        /\ ((~cache.exists /\ cache'.exists) =>
               /\ pc = "write_cache"
               /\ call.fn = "transcribeAudio" /\ call.err = NoErr
               /\ (pc' = "diarize" => cache' = File(call.text))) ]_vars

C4_Witness ==
    /\ cache0.exists /\ cache = cache0
    /\ pc = "exited" /\ exit = 1
    /\ call.fn = "diarizeTranscript" /\ call.err.kind = "timeout"

\* C5 as stated: a run exits with 0 exactly when it succeeded in full, and every
\* other run exits with 1.
C5_ExitZeroOrOne ==
    pc = "exited" =>
        /\ (exit = 0 <=> FullSuccess)
        /\ (~FullSuccess => exit = 1)

\* C5, amended: a run whose command line flag.Parse accepts exits with 0 exactly
\* when it succeeded in full and with 1 otherwise; a run whose command line
\* flag.Parse rejects exits with 2, and a run asked for help (-h, -help) exits
\* with 0, both before anything else is done.
C5_ExitStatus ==
    /\ (pc = "exited" /\ flagParse = "ok") =>
            /\ (exit = 0 <=> FullSuccess)
            /\ (~FullSuccess => exit = 1)
    /\ (pc = "exited" /\ flagParse = "bad") => (exit = 2 /\ log = <<>>)
    /\ (pc = "exited" /\ flagParse = "help") => (exit = 0 /\ log = <<>>)
    /\ (pc = "exited") <=> (exit # NoExit)
    /\ exit \in {NoExit, 0, 1, 2}

C5_Witness ==
    /\ pc = "exited" /\ flagParse = "ok" /\ exit = 1
    /\ Succeeded("post_diarization") /\ Performed("write_diarized")

\* the operations of a run that finds the cache, and of one that does not
HitPath == <<"stat_cache", "read_cache", "post_diarization", "write_diarized">>
MissPath == <<"stat_cache", "stat_audio", "read_audio", "post_transcription",
              "write_cache", "post_diarization", "write_diarized">>
OpNames(l) == [i \in DOMAIN l |-> l[i].op]

\* C6: the operations of a run are an initial part of one of the two paths, in
\* that order and each at most once; every operation but the last has succeeded,
\* and a failed one is the last, the run having exited with 1.  Nothing is done
\* before the arguments and the credential are validated, and a run they fail
\* exits having touched no file and sent no request, cache or not.
C6_StepOrder ==
    /\ OpNames(log) \in Prefixes(HitPath) \cup Prefixes(MissPath)
    /\ (Len(log) >= 2 => (log[2].op = "read_cache" <=> cache0.exists))
    /\ \A i \in DOMAIN log : i < Len(log) => log[i].ok
    /\ (log # <<>> /\ ~log[Len(log)].ok) => (pc = "exited" /\ exit = 1)
    /\ pc \in {"idle", "parse", "key"} => log = <<>>
    /\ log # <<>> => (flagParse = "ok" /\ audioPath # "" /\ apiKey # "")
    /\ (pc = "exited" /\ (flagParse # "ok" \/ audioPath = "" \/ apiKey = "")) =>
            (log = <<>> /\ call = NoCall /\ cache = cache0 /\ diarized = diarized0)
    /\ (pc = "exited" /\ log # <<>> /\ log[Len(log)].ok) =>
            log[Len(log)].op = "write_diarized"

C6_Witness ==
    /\ pc = "exited" /\ flagParse = "ok" /\ audioPath # "" /\ apiKey = ""
    /\ cache0.exists /\ log = <<>>

\* C7 as stated: after a successful run diarized.txt is the header line, a blank
\* line, the text diarizeTranscript returned, and a newline.
C7_HeaderBlankLineBody ==
    (pc = "exited" /\ FullSuccess) =>
        diarized = File(<<HeaderLine, NL, NL>> \o call.text \o <<NL>>)

\* C7, amended: after a successful run diarized.txt is the header line, directly
\* followed (no blank line) by the text diarizeTranscript returned, unchanged,
\* and a final newline; nothing of the previous content is left.
C7_HeaderBody ==
    (pc = "exited" /\ FullSuccess) =>
        /\ diarized = File(<<HeaderLine, NL>> \o call.text \o <<NL>>)
        /\ call.text = call.resp.json.text
        /\ call.text = diarizedTranscript

C7_Witness ==
    /\ pc = "exited" /\ FullSuccess
    /\ diarized0.exists /\ diarized0 # diarized
    /\ Len(diarized0.data) > Len(diarized.data)

Is2xx(status) == status \in 200..299
Decoded(c) ==
    /\ c.err.kind \in {"nil", "decode", "empty"}
    /\ c.resp.json.kind \in {"text", "choices"} => (c.err = NoErr /\ c.text = c.resp.json.text)
    /\ c.resp.json.kind = "bad" => c.err.kind = "decode"
StatusFailure(c) ==
    /\ c.err.kind = "status"
    /\ c.err.status = c.resp.status
    /\ c.err.body <= MaxResponseBodySize
    /\ c.err.body <= c.resp.len

\* C8 as stated: a response with a non-2xx status makes the call fail with an
\* error carrying the status and at most MaxResponseBodySize bytes of the body;
\* a response with a success (2xx) status is decoded and is not a status failure.
C8_Non2xxFails ==
    call.resp # NoResp =>
        /\ ~Is2xx(call.resp.status) => StatusFailure(call)
        /\ Is2xx(call.resp.status) => Decoded(call)

\* C8, amended: a response with any status other than 200 (other 2xx statuses
\* included) makes the call fail with an error carrying the status and at most
\* MaxResponseBodySize bytes of the body; a response with status 200 is decoded
\* and is not a status failure.
C8_Non200Fails ==
    call.resp # NoResp =>
        /\ call.resp.status # 200 => StatusFailure(call)
        /\ call.resp.status = 200 => Decoded(call)

C8_Witness ==
    /\ call.fn = "transcribeAudio"
    /\ call.resp.status = 500 /\ call.resp.len > MaxResponseBodySize
    /\ call.err.kind = "status" /\ call.err.body = MaxResponseBodySize

\* the deadline of the context a client is called with
Deadline(fn) == IF fn = "transcribeAudio" THEN TranscriptionTimeout ELSE DiarizationTimeout

\* C9: a call whose exchange keeps making progress is ended by a timeout only
\* when its own deadline (5 minutes, 2 minutes) has passed; the 30 seconds of the
\* HTTP client end only an exchange that stalls.
C9_OnlyDeadlineEndsProgressingCall ==
    (call.exch.kind = "complete" /\ call.err.kind = "timeout") =>
        call.prep + call.exch.dur > Deadline(call.fn)

\* C10: a 200 reply without "text" makes transcribeAudio return "" and no error;
\* the run writes "" to transcription.txt and, the write done, goes on to
\* diarizeTranscript with the empty transcript.  From then on, until the user
\* deletes the file, a run finds the empty transcription.txt, sends no
\* transcription request and diarizes the empty transcript.
C10_EmptyTranscriptCached ==
    /\ (call.fn = "transcribeAudio" /\ call.resp.status = 200
            /\ call.resp.json.kind = "notext") =>
            /\ call.err = NoErr /\ call.text = <<>> /\ transcript = <<>>
            /\ pc \in {"write_cache", "diarize", "exited"}
            /\ (pc = "diarize" <=> Succeeded("write_cache"))
            /\ (pc = "diarize" => (cache = File(<<>>) /\ noTextCached))
            /\ (pc = "exited" => (exit = 1 /\ log[Len(log)] = Op("write_cache", FALSE)))
    /\ noTextCached =>
            /\ cache = File(<<>>)
            /\ ~Performed("post_transcription") => cache0 = cache
            /\ cache0.exists => call.fn # "transcribeAudio"
            /\ call.fn = "diarizeTranscript" => call.transcript = <<>>
            /\ pc \in {"diarize", "write_diarized"} => transcript = <<>>

C10_Witness ==
    /\ noTextCached /\ cache0 = File(<<>>)
    /\ call.fn = "diarizeTranscript" /\ call.transcript = <<>>
    /\ pc = "exited" /\ exit = 0

====
